---- MODULE Spec2Model ----
(***************************************************************************)
(* Guess Who: the question strategy and round/termination state machine   *)
(* of GuessWhoGame (game_engine.py), the Person predicates                 *)
(* (person_model.py), the record store's bulk read (database_manager.py)   *)
(* and the shipped sample catalog (data_loader.py).                        *)
(*                                                                         *)
(* Text is kept as TLA+ strings; strip(), upper(), lower() and the         *)
(* substring test are computed character by character.                     *)
(***************************************************************************)
EXTENDS Integers, Sequences, FiniteSets, TLC

(* ------------------------------ bounds -------------------------------- *)

\* Most first or last rows of the sample catalog taken as the table's content.
MaxCatalog == 22

\* Number of like rows in a full team of a two-team table.
MaxTeam == 11

(* ------------------------- program constants -------------------------- *)

\* GuessWhoGame.__init__: self.max_questions = 20
max_questions == 20

\* play_round: if len(self.remaining_people) > 20 -> gender question
GenderTier == 20

\* play_round: elif len(self.remaining_people) > 10 -> entertainment question
EntertainmentTier == 10

\* play_round: elif len(self.remaining_people) > 5 -> nationality question
NationalityTier == 5

\* ask_nationality_question / ask_age_question: if len(...) <= 2: return
SkipSize == 2

\* ask_sports_question: if len(self.remaining_people) > 3 and any(...)
SubQuestionSize == 3

\* ask_age_question: p.age > 40
AgeThreshold == 40

(* ------------------------------- text --------------------------------- *)

UpperLetters == "ABCDEFGHIJKLMNOPQRSTUVWXYZ"

LowerLetters == "abcdefghijklmnopqrstuvwxyz"

\* The character at position i of string s, as a one-character string.
CharAt(s, i) == SubSeq(s, i, i)

\* str.upper() on one character.
UpperChar(c) ==
    IF \E i \in 1..26 : CharAt(LowerLetters, i) = c
    THEN CharAt(UpperLetters, CHOOSE i \in 1..26 : CharAt(LowerLetters, i) = c)
    ELSE c

\* str.lower() on one character.
LowerChar(c) ==
    IF \E i \in 1..26 : CharAt(UpperLetters, i) = c
    THEN CharAt(LowerLetters, CHOOSE i \in 1..26 : CharAt(UpperLetters, i) = c)
    ELSE c

RECURSIVE str_upper(_)
str_upper(s) ==
    IF Len(s) = 0 THEN "" ELSE UpperChar(CharAt(s, 1)) \o str_upper(SubSeq(s, 2, Len(s)))

RECURSIVE str_lower(_)
str_lower(s) ==
    IF Len(s) = 0 THEN "" ELSE LowerChar(CharAt(s, 1)) \o str_lower(SubSeq(s, 2, Len(s)))

IsSpace(c) == c = " " \/ c = "\t"

RECURSIVE lstrip(_)
lstrip(s) ==
    IF Len(s) > 0 /\ IsSpace(CharAt(s, 1)) THEN lstrip(SubSeq(s, 2, Len(s))) ELSE s

RECURSIVE rstrip(_)
rstrip(s) ==
    IF Len(s) > 0 /\ IsSpace(CharAt(s, Len(s))) THEN rstrip(SubSeq(s, 1, Len(s) - 1)) ELSE s

\* str.strip()
str_strip(s) == rstrip(lstrip(s))

\* Python's "sub in s" on strings.
str_contains(s, sub) ==
    \E i \in 1..(Len(s) - Len(sub) + 1) : SubSeq(s, i, i + Len(sub) - 1) = sub

(* ------------------------------ Person -------------------------------- *)

\* Person.__post_init__: gender and industry are upper-cased.
post_init(p) ==
    [p EXCEPT !.gender = IF p.gender # "" THEN str_upper(p.gender) ELSE "",
              !.industry = IF p.industry # "" THEN str_upper(p.industry) ELSE ""]

\* Person.from_tuple: the text columns are stripped, then __post_init__ runs.
from_tuple(data) ==
    post_init([sno |-> data[1],
               name |-> IF data[2] # "" THEN str_strip(data[2]) ELSE "",
               gender |-> IF data[3] # "" THEN str_strip(data[3]) ELSE "",
               age |-> data[4],
               occupation |-> IF data[5] # "" THEN str_strip(data[5]) ELSE "",
               industry |-> IF data[6] # "" THEN str_strip(data[6]) ELSE "",
               nationality |-> IF data[7] # "" THEN str_strip(data[7]) ELSE ""])

entertainment_industries == <<"SPORTS", "MUSIC", "FILM">>

is_in_entertainment(p) ==
    \E i \in 1..Len(entertainment_industries) : entertainment_industries[i] = p.industry

plays_sport(p) == p.industry = "SPORTS"

is_in_music(p) == p.industry = "MUSIC"

is_in_film(p) == p.industry = "FILM"

plays_tennis(p) == str_contains(str_lower(p.occupation), "tennis")

ball_sports == <<"football", "basketball", "tennis", "cricket", "baseball">>

plays_ball_sport(p) ==
    \E i \in 1..Len(ball_sports) : str_contains(str_lower(p.occupation), ball_sports[i])

(* --------------------------- record store ----------------------------- *)

\* DataLoader.get_sample_data: the shipped sample rows.
get_sample_data ==
    <<
       <<1, "Lionel Messi", "M", 36, "Football", "SPORTS", "Argentina">>,
       <<2, "Cristiano Ronaldo", "M", 38, "Football", "SPORTS", "Portugal">>,
       <<3, "Roger Federer", "M", 42, "Tennis", "SPORTS", "Switzerland">>,
       <<4, "Rafael Nadal", "M", 37, "Tennis", "SPORTS", "Spain">>,
       <<5, "Mohammad Ali", "M", 74, "Boxing", "SPORTS", "USA">>,
       <<6, "Floyd Mayweather", "M", 46, "Boxing", "SPORTS", "USA">>,
       <<7, "Serena Williams", "F", 41, "Tennis", "SPORTS", "USA">>,
       <<8, "Venus Williams", "F", 43, "Tennis", "SPORTS", "USA">>,
       <<9, "Simone Biles", "F", 26, "Gymnastics", "SPORTS", "USA">>,
       <<10, "Tiger Woods", "M", 47, "Golf", "SPORTS", "USA">>,
       <<11, "Tom Brady", "M", 46, "American Football", "SPORTS", "USA">>,
       <<12, "Michael Jordan", "M", 60, "Basketball", "SPORTS", "USA">>,
       <<13, "Magnus Carlsen", "M", 32, "Chess", "SPORTS", "Norway">>,
       <<14, "Lebron James", "M", 38, "Basketball", "SPORTS", "USA">>,
       <<15, "Virat Kohli", "M", 34, "Cricket", "SPORTS", "India">>,
       <<16, "Sachin Tendulkar", "M", 50, "Cricket", "SPORTS", "India">>,
       <<17, "Lewis Hamilton", "M", 38, "Racing", "SPORTS", "Great Britain">>,
       <<18, "Barack Obama", "M", 62, "Activist", "POLITICS", "USA">>,
       <<19, "Indira Gandhi", "F", 66, "Activist", "POLITICS", "India">>,
       <<20, "Mahatma Gandhi", "M", 78, "Lawyer", "POLITICS", "India">>,
       <<21, "Nelson Mandela", "M", 95, "Lawyer", "POLITICS", "South Africa">>,
       <<22, "Rosa Parks", "F", 92, "Activist", "POLITICS", "USA">>,
       <<23, "Martin Luther King Jr", "M", 39, "Philosopher", "POLITICS", "USA">>,
       <<24, "Malala Yousafzai", "F", 26, "Activist", "POLITICS", "Pakistan">>,
       <<25, "Margaret Thatcher", "F", 87, "Activist", "POLITICS", "Great Britain">>,
       <<26, "Angela Merkel", "F", 69, "Activist", "POLITICS", "Germany">>,
       <<27, "Mother Teresa", "F", 87, "Nun", "POLITICS", "Albania">>,
       <<28, "Isaac Newton", "M", 84, "Physicist", "SCIENCE", "Great Britain">>,
       <<29, "Albert Einstein", "M", 76, "Physicist", "SCIENCE", "Germany">>,
       <<30, "Galileo Galilei", "M", 77, "Astronomer", "SCIENCE", "Italy">>,
       <<31, "Marie Curie", "F", 66, "Chemist", "SCIENCE", "Poland">>,
       <<32, "Niels Bohr", "M", 77, "Physicist", "SCIENCE", "Denmark">>,
       <<33, "Stephen Hawking", "M", 76, "Physicist", "SCIENCE", "Great Britain">>,
       <<34, "Nikola Tesla", "M", 86, "Engineer", "SCIENCE", "Serbia">>,
       <<35, "André-Marie Ampère", "M", 61, "Physicist", "SCIENCE", "France">>,
       <<36, "Taylor Swift", "F", 34, "Singer", "MUSIC", "USA">>,
       <<37, "Ed Sheeran", "M", 32, "Singer", "MUSIC", "Great Britain">>,
       <<38, "Beyoncé", "F", 42, "Singer", "MUSIC", "USA">>,
       <<39, "Michael Jackson", "M", 50, "Singer", "MUSIC", "USA">>,
       <<40, "Elvis Presley", "M", 42, "Singer", "MUSIC", "USA">>,
       <<41, "Leonardo DiCaprio", "M", 49, "Actor", "FILM", "USA">>,
       <<42, "Meryl Streep", "F", 74, "Actress", "FILM", "USA">>,
       <<43, "Robert Downey Jr", "M", 58, "Actor", "FILM", "USA">>,
       <<44, "Jennifer Lawrence", "F", 33, "Actress", "FILM", "USA">>,
       <<45, "Tom Hanks", "M", 67, "Actor", "FILM", "USA">>,
       <<46, "Elon Musk", "M", 52, "Entrepreneur", "BUSINESS", "South Africa">>,
       <<47, "Bill Gates", "M", 68, "Entrepreneur", "BUSINESS", "USA">>,
       <<48, "Warren Buffett", "M", 93, "Investor", "BUSINESS", "USA">>,
       <<49, "Oprah Winfrey", "F", 70, "Media Mogul", "BUSINESS", "USA">>,
       <<50, "Jeff Bezos", "M", 60, "Entrepreneur", "BUSINESS", "USA">>
    >>

\* DatabaseManager.add_record: the row as it is stored (processed_data).
add_record(record_data) ==
    <<record_data[1],
      record_data[2],
      CharAt(str_upper(record_data[3]), 1),
      record_data[4],
      record_data[5],
      str_upper(record_data[6]),
      record_data[7]>>

\* Rows found in a table by means other than add_record: text columns that are
\* not normalised (lower case, padding) and an occupation naming a sport outside
\* the SPORTS industry.
stored_rows ==
    <<
       <<0, " Rod Laver Jr ", "m", 40, "Table Tennis Umpire", "film", "Australia">>
    >>

\* The rows that teams of like people are made of.
Archetypes ==
    {add_record(get_sample_data[i]) : i \in {1, 7, 19, 36, 41}}
        \cup {stored_rows[i] : i \in 1..Len(stored_rows)}

\* n rows like row, numbered first .. first + n - 1 (sno is the primary key).
Team(row, first, n) ==
    {[row EXCEPT ![1] = first + k] : k \in 0..(n - 1)}

\* The first n sample rows, as stored.
FirstRows(n) ==
    {add_record(get_sample_data[i]) : i \in {j \in 1..n : j <= Len(get_sample_data)}}

\* The last n sample rows, as stored.
LastRows(n) ==
    {add_record(get_sample_data[i]) :
        i \in {j \in 1..Len(get_sample_data) : j > Len(get_sample_data) - n}}

\* Two small catalogs and one above the gender tier: a man in sports with a
\* woman in music, three and three of two nationalities, and 25 men.
Examples ==
    {Team(add_record(get_sample_data[1]), 1, 1)
        \cup Team(add_record(get_sample_data[36]), 2, 1)}
        \cup {Team(r1, 1, 3) \cup Team(r2, 4, 3) :
                r1 \in Archetypes, r2 \in Archetypes}
        \cup {Team(r, 1, 25) : r \in {a \in Archetypes : str_upper(a[3]) = "M"}}

\* The contents of table guess_who that are explored: the whole sample catalog
\* (main_file.setup_database), its first and its last rows, two teams of
\* like rows (a full team, then none, all but one or all of another), and
\* the small catalogs above.
Tables ==
    {FirstRows(Len(get_sample_data))}
        \cup Examples
        \cup {FirstRows(n) : n \in 0..MaxCatalog}
        \cup {LastRows(n) : n \in 0..MaxCatalog}
        \cup {Team(r1, 1, MaxTeam) \cup Team(r2, MaxTeam + 1, n) :
                r1 \in Archetypes, r2 \in Archetypes,
                n \in {k \in {0, MaxTeam - 1, MaxTeam} : k >= 0}}

\* SELECT * FROM guess_who ORDER BY sno: the rows in increasing sno.
RECURSIVE order_by_sno(_)
order_by_sno(rows) ==
    IF rows = {} THEN <<>>
    ELSE LET first == CHOOSE r \in rows : \A o \in rows : r[1] <= o[1]
         IN  <<first>> \o order_by_sno(rows \ {first})

\* DatabaseManager.get_all_people: the rows in sno order; an Error of the
\* connector is caught and [] returned.
get_all_people(table, outcome_of_query) ==
    IF outcome_of_query = "Error" THEN <<>> ELSE order_by_sno(table)

\* What a call of cursor.execute can do: return rows, raise mysql.connector.Error
\* (caught in get_all_people), or raise anything else (no cursor: caught in
\* load_people).
QueryOutcomes == {"rows", "Error", "Exception"}

(* ------------------------------- input -------------------------------- *)

\* Lines the user may type at a prompt.
RawInputs == {"Y", " n ", "M", "f ", "", "maybe"}

\* input(...).strip().upper()
read_answer(raw) == str_upper(str_strip(raw))

\* Mutant of gender_answers: the gender prompt takes Y and N as well.
gender_answers_with_yes_no == <<"M", "F", "Y", "N">>

\* if answer in ['M', 'F']
gender_answers == <<"M", "F">>

\* if answer in ['Y', 'N']
yes_no_answers == <<"Y", "N">>

answer_in(answer, allowed) == \E i \in 1..Len(allowed) : allowed[i] = answer

(* ------------------------------- state -------------------------------- *)

VARIABLES
    db,                 \* the rows of table guess_who
    people,             \* GuessWhoGame.people
    remaining_people,   \* GuessWhoGame.remaining_people
    questions_asked,    \* GuessWhoGame.questions_asked
    most_common,        \* ask_nationality_question's local most_common ("" outside it)
    pc,                 \* where the program is: the pending prompt or the next block
    step,               \* the step taken last: operation, answer read and its fate
    round,              \* the current round: size and counter at its start, questions answered
    outcome,            \* what the console was last told about the session
    target              \* the person the user thinks of: an index of people, or 0

vars ==
    <<db, people, remaining_people, questions_asked, most_common, pc, step, round,
      outcome, target>>

(* ------------------------------ filters ------------------------------- *)

\* any(p.plays_sport() for p in self.remaining_people)
any_plays_sport(L) == \E i \in 1..Len(L) : plays_sport(L[i])

\* any(p.plays_tennis() for p in self.remaining_people)
any_plays_tennis(L) == \E i \in 1..Len(L) : plays_tennis(L[i])

\* any(p.plays_ball_sport() for p in self.remaining_people)
any_plays_ball_sport(L) == \E i \in 1..Len(L) : plays_ball_sport(L[i])

\* Mutant of filter_gender: an answer nobody matches leaves the list as it was.
filter_gender_never_empty(L, answer) ==
    IF \E i \in 1..Len(L) : L[i].gender = answer
    THEN SelectSeq(L, LAMBDA p : p.gender = answer)
    ELSE L

\* [p for p in self.remaining_people if p.gender == answer]
filter_gender(L, answer) == SelectSeq(L, LAMBDA p : p.gender = answer)

\* Mutant of filter_entertainment: the catalog is filtered, not the candidates.
filter_entertainment_of_catalog(L, answer) ==
    IF answer = "Y" THEN SelectSeq(people, is_in_entertainment)
    ELSE SelectSeq(people, LAMBDA p : ~is_in_entertainment(p))

\* ask_entertainment_question: Y keeps is_in_entertainment, N its negation.
filter_entertainment(L, answer) ==
    IF answer = "Y" THEN SelectSeq(L, is_in_entertainment)
    ELSE SelectSeq(L, LAMBDA p : ~is_in_entertainment(p))

\* ask_sports_question: Y keeps plays_sport, N its negation.
filter_sports(L, answer) ==
    IF answer = "Y" THEN SelectSeq(L, plays_sport)
    ELSE SelectSeq(L, LAMBDA p : ~plays_sport(p))

\* _ask_tennis_question: Y keeps plays_tennis, N its negation.
filter_tennis(L, answer) ==
    IF answer = "Y" THEN SelectSeq(L, plays_tennis)
    ELSE SelectSeq(L, LAMBDA p : ~plays_tennis(p))

\* Mutant of filter_ball_sport: N keeps the people who play no sport at all.
filter_ball_sport_no_sport(L, answer) ==
    IF answer = "Y" THEN SelectSeq(L, plays_ball_sport)
    ELSE SelectSeq(L, LAMBDA p : ~plays_sport(p))

\* _ask_ball_sport_question: Y keeps plays_ball_sport, N its negation.
filter_ball_sport(L, answer) ==
    IF answer = "Y" THEN SelectSeq(L, plays_ball_sport)
    ELSE SelectSeq(L, LAMBDA p : ~plays_ball_sport(p))

\* ask_film_vs_music_question: Y keeps is_in_film, N keeps is_in_music.
filter_film_vs_music(L, answer) ==
    IF answer = "Y" THEN SelectSeq(L, is_in_film) ELSE SelectSeq(L, is_in_music)

\* Mutant of filter_age: N keeps the people younger than 40.
filter_age_younger(L, answer) ==
    IF answer = "Y" THEN SelectSeq(L, LAMBDA p : p.age > AgeThreshold)
    ELSE SelectSeq(L, LAMBDA p : p.age < AgeThreshold)

\* ask_age_question: Y keeps age > 40, N keeps age <= 40.
filter_age(L, answer) ==
    IF answer = "Y" THEN SelectSeq(L, LAMBDA p : p.age > AgeThreshold)
    ELSE SelectSeq(L, LAMBDA p : p.age <= AgeThreshold)

\* The keys of dict nationalities, in insertion order: each nationality of L
\* at its first occurrence.
nationality_keys(L) ==
    LET firsts == SelectSeq([i \in 1..Len(L) |-> i],
                            LAMBDA i : \A j \in 1..(i - 1) :
                                          L[j].nationality # L[i].nationality)
    IN  [k \in 1..Len(firsts) |-> L[firsts[k]].nationality]

\* nationalities[nat]: the number of people of L with that nationality.
nationality_count(L, nat) == Cardinality({i \in 1..Len(L) : L[i].nationality = nat})

\* Mutant of most_common_nationality: of the keys with the highest count the
\* last one in insertion order is taken.
most_common_nationality_last(L) ==
    LET keys == nationality_keys(L)
        best == CHOOSE k \in 1..Len(keys) :
                    /\ \A j \in 1..Len(keys) :
                          nationality_count(L, keys[j]) <= nationality_count(L, keys[k])
                    /\ \A j \in (k + 1)..Len(keys) :
                          nationality_count(L, keys[j]) < nationality_count(L, keys[k])
    IN  keys[best]

\* max(nationalities.keys(), key=lambda x: nationalities[x]): the first key, in
\* insertion order, whose count no other key exceeds.
most_common_nationality(L) ==
    LET keys == nationality_keys(L)
        best == CHOOSE k \in 1..Len(keys) :
                    /\ \A j \in 1..Len(keys) :
                          nationality_count(L, keys[j]) <= nationality_count(L, keys[k])
                    /\ \A j \in 1..(k - 1) :
                          nationality_count(L, keys[j]) < nationality_count(L, keys[k])
    IN  keys[best]

\* Mutant of filter_nationality: the most common nationality is computed
\* again from the list that is filtered.
filter_nationality_recomputed(L, answer, nat) ==
    IF L = <<>> THEN L
    ELSE IF answer = "Y"
    THEN SelectSeq(L, LAMBDA p : p.nationality = most_common_nationality(L))
    ELSE SelectSeq(L, LAMBDA p : p.nationality # most_common_nationality(L))

\* ask_nationality_question: Y keeps nationality == most_common, N the others.
filter_nationality(L, answer, nat) ==
    IF answer = "Y" THEN SelectSeq(L, LAMBDA p : p.nationality = nat)
    ELSE SelectSeq(L, LAMBDA p : p.nationality # nat)

(* --------------------------- state, continued ------------------------- *)

QuestionPcs ==
    {"ask_gender", "ask_entertainment", "ask_sports", "ask_tennis", "ask_ball_sport",
     "ask_film_vs_music", "ask_nationality", "ask_age"}

PromptPcs == QuestionPcs \cup {"play_again"}

TerminalStates == {"Solved", "NoMatch", "BudgetSpent"}

\* Mutant of names_of: the names are told last to first.
names_of_reversed(L) == [i \in 1..Len(L) |-> L[Len(L) + 1 - i].name]

\* play_round, "for person in self.remaining_people: print(person.name)".
names_of(L) == [i \in 1..Len(L) |-> L[i].name]

no_input(op) == [op |-> op, input |-> "none", answer |-> "", query |-> ""]

accepted(op, answer) == [op |-> op, input |-> "accepted", answer |-> answer, query |-> ""]

rejected(op, answer) == [op |-> op, input |-> "rejected", answer |-> answer, query |-> ""]

\* The round's record once question q has been answered and its filter applied.
answered(r, q) == [r EXCEPT !.asked = Append(@, q), !.filters = @ + 1]

\* No round of the session has chosen a question yet.
no_round == [size |-> 0, count |-> 0, asked |-> <<>>, filters |-> 0]

\* GuessWhoGame.__init__ and the call of play_game in main.
constructed ==
    /\ people = <<>>
    /\ remaining_people = <<>>
    /\ questions_asked = 0
    /\ most_common = ""
    /\ pc = "play_game"
    /\ step = no_input("init")
    /\ round = no_round
    /\ outcome = [state |-> "NotStarted", names |-> <<>>, count |-> -1]

\* The user answers as they like, with nobody in mind.
Init ==
    /\ db \in Tables
    /\ target = 0
    /\ constructed

(* --------------------------- start of a game -------------------------- *)

\* load_people: the list of Person made of the rows read.
load_people(data) == [i \in 1..Len(data) |-> from_tuple(data[i])]

\* Mutant of start_new_game: the counter is not reset.
start_new_game_keeps_count ==
    /\ pc = "play_game"
    /\ \E q \in QueryOutcomes :
          /\ step' = [no_input("start_new_game") EXCEPT !.query = q]
          /\ IF q = "Exception"
             THEN /\ pc' = "exit"
                  /\ outcome' = [state |-> "Failed", names |-> <<>>, count |-> -1]
                  /\ UNCHANGED <<people, remaining_people, round>>
             ELSE /\ people' = load_people(get_all_people(db, q))
                  /\ remaining_people' = people'
                  /\ pc' = "play_round"
                  /\ outcome' = [state |-> "InProgress", names |-> <<>>, count |-> -1]
                  /\ round' = no_round
    /\ UNCHANGED <<db, target, most_common, questions_asked>>

\* play_game up to its round loop: start_new_game, with load_people in it.
start_new_game ==
    /\ pc = "play_game"
    /\ \E q \in QueryOutcomes :
          /\ step' = [no_input("start_new_game") EXCEPT !.query = q]
          /\ IF q = "Exception"
             THEN /\ pc' = "exit"
                  /\ outcome' = [state |-> "Failed", names |-> <<>>, count |-> -1]
                  /\ UNCHANGED <<people, remaining_people, questions_asked, round>>
             ELSE /\ people' = load_people(get_all_people(db, q))
                  /\ remaining_people' = people'
                  /\ questions_asked' = 0
                  /\ pc' = "play_round"
                  /\ outcome' = [state |-> "InProgress", names |-> <<>>, count |-> -1]
                  /\ round' = no_round
    /\ UNCHANGED <<db, target, most_common>>

(* ------------------------------- rounds ------------------------------- *)

\* Mutant of play_round: the budget is checked before the candidates are counted.
play_round_budget_first ==
    /\ pc = "play_round"
    /\ step' = no_input("play_round")
    /\ IF questions_asked >= max_questions
       THEN /\ outcome' = [state |-> "BudgetSpent",
                           names |-> names_of(remaining_people),
                           count |-> -1]
            /\ pc' = "play_again"
       ELSE IF Len(remaining_people) = 1
       THEN /\ outcome' = [state |-> "Solved",
                           names |-> <<remaining_people[1].name>>,
                           count |-> questions_asked]
            /\ pc' = "play_again"
       ELSE IF Len(remaining_people) = 0
       THEN /\ outcome' = [state |-> "NoMatch", names |-> <<>>, count |-> -1]
            /\ pc' = "play_again"
       ELSE /\ pc' = "select_question"
            /\ UNCHANGED outcome
    /\ UNCHANGED <<db, target, people, remaining_people, questions_asked, most_common, round>>

\* Mutant of play_round: out of questions, the round is played all the same.
play_round_goes_on ==
    /\ pc = "play_round"
    /\ step' = no_input("play_round")
    /\ IF Len(remaining_people) = 1
       THEN /\ outcome' = [state |-> "Solved",
                           names |-> <<remaining_people[1].name>>,
                           count |-> questions_asked]
            /\ pc' = "play_again"
       ELSE IF Len(remaining_people) = 0
       THEN /\ outcome' = [state |-> "NoMatch", names |-> <<>>, count |-> -1]
            /\ pc' = "play_again"
       ELSE IF questions_asked >= max_questions
       THEN /\ outcome' = [state |-> "BudgetSpent",
                           names |-> names_of(remaining_people),
                           count |-> -1]
            /\ pc' = "select_question"
       ELSE /\ pc' = "select_question"
            /\ UNCHANGED outcome
    /\ UNCHANGED <<db, target, people, remaining_people, questions_asked, most_common, round>>

\* play_round, its three termination checks; the round goes on to the choice
\* of a question when none of them ends the game.
play_round ==
    /\ pc = "play_round"
    /\ step' = no_input("play_round")
    /\ IF Len(remaining_people) = 1
       THEN /\ outcome' = [state |-> "Solved",
                           names |-> <<remaining_people[1].name>>,
                           count |-> questions_asked]
            /\ pc' = "play_again"
       ELSE IF Len(remaining_people) = 0
       THEN /\ outcome' = [state |-> "NoMatch", names |-> <<>>, count |-> -1]
            /\ pc' = "play_again"
       ELSE IF questions_asked >= max_questions
       THEN /\ outcome' = [state |-> "BudgetSpent",
                           names |-> names_of(remaining_people),
                           count |-> -1]
            /\ pc' = "play_again"
       ELSE /\ pc' = "select_question"
            /\ UNCHANGED outcome
    /\ UNCHANGED <<db, target, people, remaining_people, questions_asked, most_common, round>>

\* Mutant of nationality_prompt: the question is put whatever the count is.
nationality_prompt_any_count(L) ==
    IF Len(L) <= SkipSize THEN "play_round" ELSE "ask_nationality"

\* ask_nationality_question up to its prompt: the prompt it reaches, or
\* "play_round" when it returns without asking.
nationality_prompt(L) ==
    IF Len(L) <= SkipSize THEN "play_round"
    ELSE IF nationality_count(L, most_common_nationality(L)) > 1 THEN "ask_nationality"
    ELSE "play_round"

\* Mutant of age_prompt: the question is asked of two candidates or fewer too.
age_prompt_unguarded(L) == "ask_age"

\* Mutant of age_prompt: the question is skipped only below two candidates.
age_prompt_below_two(L) == IF Len(L) < SkipSize THEN "play_round" ELSE "ask_age"

\* ask_age_question up to its prompt.
age_prompt(L) == IF Len(L) <= SkipSize THEN "play_round" ELSE "ask_age"

\* Mutant of first_prompt: the tiers start at their thresholds, not above them.
first_prompt_from_threshold(L) ==
    IF Len(L) >= GenderTier THEN "ask_gender"
    ELSE IF Len(L) >= EntertainmentTier THEN "ask_entertainment"
    ELSE IF Len(L) >= NationalityTier THEN nationality_prompt(L)
    ELSE age_prompt(L)

\* play_round, "Smart question asking based on remaining people": the first
\* prompt of the round, or "play_round" when the round ends without one.
first_prompt(L) ==
    IF Len(L) > GenderTier THEN "ask_gender"
    ELSE IF Len(L) > EntertainmentTier THEN "ask_entertainment"
    ELSE IF Len(L) > NationalityTier THEN nationality_prompt(L)
    ELSE age_prompt(L)

\* play_round from the round's banner to its first prompt.
select_question ==
    /\ pc = "select_question"
    /\ step' = no_input("select_question")
    /\ round' = [size |-> Len(remaining_people), count |-> questions_asked,
                 asked |-> <<>>, filters |-> 0]
    /\ pc' = first_prompt(remaining_people)
    /\ most_common' = IF pc' = "ask_nationality"
                      THEN most_common_nationality(remaining_people)
                      ELSE most_common
    /\ UNCHANGED <<db, target, people, remaining_people, questions_asked, outcome>>

(* ------------------------------ questions ----------------------------- *)

\* A line that is not an allowed answer: the hint is printed and the same
\* prompt is shown again.
ask_again(op, answer) ==
    /\ step' = rejected(op, answer)
    /\ UNCHANGED <<remaining_people, questions_asked, pc, round>>

ask_gender_question ==
    /\ pc = "ask_gender"
    /\ \E raw \in RawInputs :
          LET answer == read_answer(raw) IN
          IF answer_in(answer, gender_answers)
          THEN /\ remaining_people' = filter_gender(remaining_people, answer)
               /\ questions_asked' = questions_asked + 1
               /\ step' = accepted("ask_gender_question", answer)
               /\ round' = answered(round, "gender")
               /\ pc' = "play_round"
          ELSE ask_again("ask_gender_question", answer)
    /\ UNCHANGED <<db, target, people, most_common, outcome>>

\* ask_sports_question up to its prompt: it returns at once when nobody plays
\* a sport.
sports_prompt(L) == IF ~any_plays_sport(L) THEN "play_round" ELSE "ask_sports"

\* Mutant of entertainment_follow_up: the branch is taken after N as well.
entertainment_follow_up_any_answer(L, answer) ==
    IF any_plays_sport(L) THEN sports_prompt(L) ELSE "ask_film_vs_music"

\* Mutant of entertainment_follow_up: the two branches after Y are exchanged.
entertainment_follow_up_exchanged(L, answer) ==
    IF answer = "Y"
    THEN IF any_plays_sport(L) THEN "ask_film_vs_music" ELSE sports_prompt(L)
    ELSE "play_round"

\* play_round after ask_entertainment_question returned industry_type.
entertainment_follow_up(L, answer) ==
    IF answer = "Y"
    THEN IF any_plays_sport(L) THEN sports_prompt(L) ELSE "ask_film_vs_music"
    ELSE "play_round"

ask_entertainment_question ==
    /\ pc = "ask_entertainment"
    /\ \E raw \in RawInputs :
          LET answer == read_answer(raw) IN
          IF answer_in(answer, yes_no_answers)
          THEN /\ questions_asked' = questions_asked + 1
               /\ remaining_people' = filter_entertainment(remaining_people, answer)
               /\ step' = accepted("ask_entertainment_question", answer)
               /\ round' = answered(round, "entertainment")
               /\ pc' = entertainment_follow_up(remaining_people', answer)
          ELSE ask_again("ask_entertainment_question", answer)
    /\ UNCHANGED <<db, target, people, most_common, outcome>>

\* ask_sports_question, "Further narrow down sports", after _ask_tennis_question.
tennis_follow_up(L) ==
    IF Len(L) > SubQuestionSize /\ any_plays_ball_sport(L)
    THEN "ask_ball_sport" ELSE "play_round"

\* Mutant of sports_follow_up: the tennis question is put whatever the size.
sports_follow_up_any_size(L) ==
    IF any_plays_tennis(L) THEN "ask_tennis" ELSE tennis_follow_up(L)

\* ask_sports_question, "Further narrow down sports", after its own question.
sports_follow_up(L) ==
    IF Len(L) > SubQuestionSize /\ any_plays_tennis(L)
    THEN "ask_tennis" ELSE tennis_follow_up(L)

ask_sports_question ==
    /\ pc = "ask_sports"
    /\ \E raw \in RawInputs :
          LET answer == read_answer(raw) IN
          IF answer_in(answer, yes_no_answers)
          THEN /\ questions_asked' = questions_asked + 1
               /\ remaining_people' = filter_sports(remaining_people, answer)
               /\ step' = accepted("ask_sports_question", answer)
               /\ round' = answered(round, "sports")
               /\ pc' = sports_follow_up(remaining_people')
          ELSE ask_again("ask_sports_question", answer)
    /\ UNCHANGED <<db, target, people, most_common, outcome>>

\* Mutant of ask_tennis_question: the answer is not counted.
ask_tennis_question_uncounted ==
    /\ pc = "ask_tennis"
    /\ \E raw \in RawInputs :
          LET answer == read_answer(raw) IN
          IF answer_in(answer, yes_no_answers)
          THEN /\ questions_asked' = questions_asked
               /\ remaining_people' = filter_tennis(remaining_people, answer)
               /\ step' = accepted("ask_tennis_question", answer)
               /\ round' = answered(round, "tennis")
               /\ pc' = tennis_follow_up(remaining_people')
          ELSE ask_again("ask_tennis_question", answer)
    /\ UNCHANGED <<db, target, people, most_common, outcome>>

\* _ask_tennis_question, and what ask_sports_question does after it.
ask_tennis_question ==
    /\ pc = "ask_tennis"
    /\ \E raw \in RawInputs :
          LET answer == read_answer(raw) IN
          IF answer_in(answer, yes_no_answers)
          THEN /\ questions_asked' = questions_asked + 1
               /\ remaining_people' = filter_tennis(remaining_people, answer)
               /\ step' = accepted("ask_tennis_question", answer)
               /\ round' = answered(round, "tennis")
               /\ pc' = tennis_follow_up(remaining_people')
          ELSE ask_again("ask_tennis_question", answer)
    /\ UNCHANGED <<db, target, people, most_common, outcome>>

ask_ball_sport_question ==
    /\ pc = "ask_ball_sport"
    /\ \E raw \in RawInputs :
          LET answer == read_answer(raw) IN
          IF answer_in(answer, yes_no_answers)
          THEN /\ questions_asked' = questions_asked + 1
               /\ remaining_people' = filter_ball_sport(remaining_people, answer)
               /\ step' = accepted("ask_ball_sport_question", answer)
               /\ round' = answered(round, "ball_sport")
               /\ pc' = "play_round"
          ELSE ask_again("ask_ball_sport_question", answer)
    /\ UNCHANGED <<db, target, people, most_common, outcome>>

ask_film_vs_music_question ==
    /\ pc = "ask_film_vs_music"
    /\ \E raw \in RawInputs :
          LET answer == read_answer(raw) IN
          IF answer_in(answer, yes_no_answers)
          THEN /\ questions_asked' = questions_asked + 1
               /\ remaining_people' = filter_film_vs_music(remaining_people, answer)
               /\ step' = accepted("ask_film_vs_music_question", answer)
               /\ round' = answered(round, "film_vs_music")
               /\ pc' = "play_round"
          ELSE ask_again("ask_film_vs_music_question", answer)
    /\ UNCHANGED <<db, target, people, most_common, outcome>>

ask_nationality_question ==
    /\ pc = "ask_nationality"
    /\ \E raw \in RawInputs :
          LET answer == read_answer(raw) IN
          IF answer_in(answer, yes_no_answers)
          THEN /\ questions_asked' = questions_asked + 1
               /\ remaining_people' = filter_nationality(remaining_people, answer, most_common)
               /\ step' = accepted("ask_nationality_question", answer)
               /\ round' = answered(round, "nationality")
               /\ pc' = "play_round"
               /\ most_common' = ""
          ELSE /\ ask_again("ask_nationality_question", answer)
               /\ UNCHANGED most_common
    /\ UNCHANGED <<db, target, people, outcome>>

ask_age_question ==
    /\ pc = "ask_age"
    /\ \E raw \in RawInputs :
          LET answer == read_answer(raw) IN
          IF answer_in(answer, yes_no_answers)
          THEN /\ questions_asked' = questions_asked + 1
               /\ remaining_people' = filter_age(remaining_people, answer)
               /\ step' = accepted("ask_age_question", answer)
               /\ round' = answered(round, "age")
               /\ pc' = "play_round"
          ELSE ask_again("ask_age_question", answer)
    /\ UNCHANGED <<db, target, people, most_common, outcome>>

(* --------------------------- end of a game ---------------------------- *)

\* play_game, "Ask if player wants to play again": Y runs play_game again,
\* N leaves; when the inner play_game returns the loop breaks.
play_again ==
    /\ pc = "play_again"
    /\ \E raw \in RawInputs :
          LET answer == read_answer(raw) IN
          IF answer_in(answer, yes_no_answers)
          THEN /\ step' = accepted("play_again", answer)
               /\ pc' = IF answer = "Y" THEN "play_game" ELSE "exit"
          ELSE /\ step' = rejected("play_again", answer)
               /\ UNCHANGED pc
    /\ UNCHANGED <<db, target, people, remaining_people, questions_asked, most_common, round, outcome>>

\* Mutant of keyboard_interrupt: the interrupt only ends the round, and the
\* game goes on with the next one.
keyboard_interrupt_ends_round ==
    /\ pc \in PromptPcs
    /\ pc' = "play_round"
    /\ step' = no_input("keyboard_interrupt")
    /\ outcome' = [outcome EXCEPT !.state = "Interrupted"]
    /\ most_common' = ""
    /\ UNCHANGED <<db, target, people, remaining_people, questions_asked, round>>

\* main: KeyboardInterrupt raised by input() at a prompt leaves play_game.
keyboard_interrupt ==
    /\ pc \in PromptPcs
    /\ pc' = "exit"
    /\ step' = no_input("keyboard_interrupt")
    /\ outcome' = [outcome EXCEPT !.state = "Interrupted"]
    /\ most_common' = ""
    /\ UNCHANGED <<db, target, people, remaining_people, questions_asked, round>>

(* ---------------------------- specification --------------------------- *)

\* A question answered with an allowed answer.
valid_answer ==
    /\ \/ ask_gender_question
       \/ ask_entertainment_question
       \/ ask_sports_question
       \/ ask_tennis_question
       \/ ask_ball_sport_question
       \/ ask_film_vs_music_question
       \/ ask_nationality_question
       \/ ask_age_question
    /\ step'.input = "accepted"

Next ==
    \/ start_new_game
    \/ play_round
    \/ select_question
    \/ ask_gender_question
    \/ ask_entertainment_question
    \/ ask_sports_question
    \/ ask_tennis_question
    \/ ask_ball_sport_question
    \/ ask_film_vs_music_question
    \/ ask_nationality_question
    \/ ask_age_question
    \/ play_again
    \/ keyboard_interrupt

Spec == Init /\ [][Next]_vars

\* The tables of the runs checked for termination: two sample rows, and the
\* most first and last sample rows.
LiveTables == {FirstRows(2), FirstRows(MaxCatalog), LastRows(MaxCatalog)}

LiveInit == Init /\ db \in LiveTables

\* The program runs whenever it can, and the user eventually gives an allowed
\* answer to a pending question.
FairSpec ==
    /\ LiveInit
    /\ [][Next]_vars
    /\ WF_vars(play_round)
    /\ WF_vars(select_question)
    /\ WF_vars(valid_answer)

\* The list comprehension of any one question, for either answer, applied to
\* the candidates whatever their number: the filters on their own, without
\* the rounds that choose among them.
apply_filter ==
    /\ pc = "play_round"
    /\ \/ \E a \in {"M", "F"} :
             /\ remaining_people' = filter_gender(remaining_people, a)
             /\ step' = accepted("ask_gender_question", a)
       \/ \E a \in {"Y", "N"} :
             /\ remaining_people' = filter_entertainment(remaining_people, a)
             /\ step' = accepted("ask_entertainment_question", a)
       \/ \E a \in {"Y", "N"} :
             /\ remaining_people' = filter_sports(remaining_people, a)
             /\ step' = accepted("ask_sports_question", a)
       \/ \E a \in {"Y", "N"} :
             /\ remaining_people' = filter_tennis(remaining_people, a)
             /\ step' = accepted("ask_tennis_question", a)
       \/ \E a \in {"Y", "N"} :
             /\ remaining_people' = filter_ball_sport(remaining_people, a)
             /\ step' = accepted("ask_ball_sport_question", a)
       \/ \E a \in {"Y", "N"} :
             /\ remaining_people' = filter_film_vs_music(remaining_people, a)
             /\ step' = accepted("ask_film_vs_music_question", a)
       \/ \E a \in {"Y", "N"} :
             \E i \in 1..Len(remaining_people) :
                 /\ remaining_people' =
                        filter_nationality(remaining_people, a,
                                           remaining_people[i].nationality)
                 /\ step' = accepted("ask_nationality_question", a)
       \/ \E a \in {"Y", "N"} :
             /\ remaining_people' = filter_age(remaining_people, a)
             /\ step' = accepted("ask_age_question", a)
    /\ UNCHANGED <<db, target, people, questions_asked, most_common, pc, round, outcome>>

FilterNext == start_new_game \/ apply_filter

\* The tables whose rows the filters are applied to: the small catalogs, and
\* as many of the first and of the last sample rows as make a team.
FilterTables == Examples \cup {FirstRows(MaxTeam), LastRows(MaxTeam)}

FilterInit == Init /\ db \in FilterTables

\* The catalog is loaded and the filters are applied to it in any order.
FilterSpec == FilterInit /\ [][FilterNext]_vars

\* What a user who thinks of person p answers at a prompt, going by what the
\* prompt asks: the gender, or whether p is in the entertainment industry,
\* plays sports, plays tennis, plays a ball sport, is a person of film (more
\* popular on Netflix than Spotify), is from nat, is over 40.
true_answer(prompt, p, nat) ==
    CASE prompt = "ask_gender" -> p.gender
      [] prompt = "ask_entertainment" -> IF is_in_entertainment(p) THEN "Y" ELSE "N"
      [] prompt = "ask_sports" -> IF plays_sport(p) THEN "Y" ELSE "N"
      [] prompt = "ask_tennis" -> IF plays_tennis(p) THEN "Y" ELSE "N"
      [] prompt = "ask_ball_sport" -> IF plays_ball_sport(p) THEN "Y" ELSE "N"
      [] prompt = "ask_film_vs_music" -> IF is_in_film(p) THEN "Y" ELSE "N"
      [] prompt = "ask_nationality" -> IF p.nationality = nat THEN "Y" ELSE "N"
      [] prompt = "ask_age" -> IF p.age > AgeThreshold THEN "Y" ELSE "N"
      [] OTHER -> ""

\* The user thinks of a person of the catalog and answers the pending
\* question with what is true of that person.
truthful_answer ==
    /\ target \in 1..Len(people)
    /\ valid_answer
    /\ step'.answer = true_answer(pc, people[target], most_common)

\* The tables of the truthful games: the sample catalog, the small catalogs,
\* and some of the first and of the last sample rows.
TruthTables ==
    {FirstRows(Len(get_sample_data))}
        \cup Examples
        \cup {FirstRows(MaxTeam), LastRows(MaxCatalog)}

\* The user has one of the rows of the table in mind.
TruthInit ==
    /\ db \in TruthTables
    /\ target \in 1..Cardinality(db)
    /\ constructed

TruthNext ==
    \/ start_new_game
    \/ play_round
    \/ select_question
    \/ truthful_answer
    \/ play_again

\* Games in which every answer is true of the person in mind.
TruthSpec == TruthInit /\ [][TruthNext]_vars

\* The user has one of the 50 people of the sample catalog in mind.
SampleInit == TruthInit /\ db = FirstRows(Len(get_sample_data))

\* The truthful games on the sample catalog: the program runs whenever it
\* can, and the user answers each pending question.
SampleSpec ==
    /\ SampleInit
    /\ [][TruthNext]_vars
    /\ WF_vars(play_round)
    /\ WF_vars(select_question)
    /\ WF_vars(truthful_answer)

(* ------------------------------ properties ---------------------------- *)

QuestionOps ==
    {"ask_gender_question", "ask_entertainment_question", "ask_sports_question",
     "ask_tennis_question", "ask_ball_sport_question", "ask_film_vs_music_question",
     "ask_nationality_question", "ask_age_question"}

\* a is b with some elements left out, the others in b's order.
RECURSIVE IsSubsequence(_, _)
IsSubsequence(a, b) ==
    IF Len(a) = 0 THEN TRUE
    ELSE IF Len(b) = 0 THEN FALSE
    ELSE IF Head(a) = Head(b) THEN IsSubsequence(Tail(a), Tail(b))
    ELSE IsSubsequence(a, Tail(b))

\* A round has run to its end: control is back at the termination checks.
RoundOver == pc = "play_round" /\ step.op # "start_new_game"

\* C1: a session that is in progress eventually ends Solved, NoMatch or
\* BudgetSpent (or is left by an interrupt), the user answering every pending
\* question with an allowed answer sooner or later.
C1_Terminates ==
    (outcome.state = "InProgress") ~> (outcome.state \in TerminalStates \/ pc = "exit")

\* C2: in every reachable state the counter of questions is at most the budget.
C2_WithinBudget == questions_asked <= max_questions

\* C3: a step that accepts an answer to a game question adds exactly one to the
\* counter; start_new_game sets it to 0 or leaves it (the load failed); no other
\* step changes it.
C3_CounterStep ==
    [][IF step'.op \in QuestionOps /\ step'.input = "accepted"
       THEN questions_asked' = questions_asked + 1
       ELSE IF step'.op = "start_new_game"
       THEN questions_asked' \in {0, questions_asked}
       ELSE questions_asked' = questions_asked]_vars

\* C3 witness: the tennis question, third of its round, has been answered and counted.
C3_Witness ==
    /\ step.op = "ask_tennis_question"
    /\ step.input = "accepted"
    /\ questions_asked = round.count + 3

\* C4: after every step the candidates are a subsequence, in order, of the
\* catalog, and, but for the start of a new game, of the candidates before the
\* step; the catalog and the table are not changed by a step of a session.
C4_OnlyShrinks ==
    [][/\ IsSubsequence(remaining_people', people')
       /\ db' = db
       /\ step'.op # "start_new_game" =>
             /\ IsSubsequence(remaining_people', remaining_people)
             /\ people' = people]_vars

\* C4 witness: an answer left several candidates, fewer than before, the first
\* of the catalog not among them.
C4_Witness ==
    /\ step.input = "accepted"
    /\ step.op \in QuestionOps
    /\ Len(remaining_people) > 1
    /\ Len(remaining_people) < round.size
    /\ remaining_people[1] # people[1]

\* C5 as claimed: a round that ran to its end has asked exactly one question and
\* applied exactly one filter.
C5_ExactlyOneQuestion ==
    RoundOver => Len(round.asked) = 1 /\ round.filters = 1

\* The sequences of questions a round over size candidates can ask.
RoundQuestions(size) ==
    IF size > 20 THEN {<<"gender">>}
    ELSE IF size > 10
    THEN {<<"entertainment">>,
          <<"entertainment", "film_vs_music">>,
          <<"entertainment", "sports">>,
          <<"entertainment", "sports", "tennis">>,
          <<"entertainment", "sports", "ball_sport">>,
          <<"entertainment", "sports", "tennis", "ball_sport">>}
    ELSE IF size > 5 THEN {<<>>, <<"nationality">>}
    ELSE IF size > 2 THEN {<<"age">>}
    ELSE {<<>>}

\* C5 as amended: a round that ran to its end has applied one filter per question
\* asked and counted each once, and has asked: the gender question alone above
\* 20 candidates; the entertainment question, then after Y either film-vs-music
\* or plays-sports with the tennis and ball-sport questions that follow it, from
\* 11 to 20; the nationality question or none from 6 to 10; the age question
\* alone from 3 to 5; none for 2.
C5_QuestionsPerRound ==
    RoundOver =>
        /\ round.asked \in RoundQuestions(round.size)
        /\ round.filters = Len(round.asked)
        /\ questions_asked = round.count + Len(round.asked)

\* C5 witness: a round has asked four questions.
C5_Witness ==
    /\ RoundOver
    /\ round.asked = <<"entertainment", "sports", "tennis", "ball_sport">>

\* C6: the checks at the start of a round: one candidate ends the game Solved,
\* with that candidate's name and the counter told; no candidate ends it
\* NoMatch; both whatever the counter is; BudgetSpent is told only with two or
\* more candidates and the counter at the budget or above.
C6_CheckPriority ==
    [][pc = "play_round" =>
          /\ Len(remaining_people) = 1 =>
                /\ outcome' = [state |-> "Solved",
                               names |-> <<remaining_people[1].name>>,
                               count |-> questions_asked]
                /\ pc' = "play_again"
          /\ Len(remaining_people) = 0 =>
                /\ outcome'.state = "NoMatch"
                /\ pc' = "play_again"
          /\ outcome'.state = "BudgetSpent" =>
                /\ Len(remaining_people) >= 2
                /\ questions_asked >= 20]_vars

\* C6 witness: a game ended NoMatch with the counter at the budget or above.
C6_Witness == outcome.state = "NoMatch" /\ questions_asked >= 20 /\ pc = "play_again"

\* C7: a round that starts with the counter at the budget or above and two or
\* more candidates ends the game BudgetSpent without a question: the names
\* told are those of the candidates, in their order, which is the catalog's,
\* and neither candidates nor counter change.
C7_BudgetSpent ==
    [][(pc = "play_round" /\ questions_asked >= 20 /\ Len(remaining_people) >= 2) =>
          /\ outcome'.state = "BudgetSpent"
          /\ outcome'.names = [i \in 1..Len(remaining_people) |-> remaining_people[i].name]
          /\ IsSubsequence(outcome'.names, [i \in 1..Len(people) |-> people[i].name])
          /\ pc' = "play_again"
          /\ remaining_people' = remaining_people
          /\ questions_asked' = questions_asked]_vars

\* C7 witness: the last three sample rows are told, in catalog order, the
\* budget spent.
C7_Witness ==
    /\ outcome.state = "BudgetSpent"
    /\ outcome.names = <<"Warren Buffett", "Oprah Winfrey", "Jeff Bezos">>
    /\ questions_asked = 20

\* C8: once a game has ended Solved, NoMatch or BudgetSpent, no step but the
\* start of a new game changes the candidates or the counter, and no step
\* leads to a game question.
C8_Absorbing ==
    [][outcome.state \in TerminalStates =>
          \/ /\ step'.op = "start_new_game"
             /\ outcome'.state = "InProgress"
          \/ /\ remaining_people' = remaining_people
             /\ questions_asked' = questions_asked
             /\ pc' \notin QuestionPcs \cup {"play_round", "select_question"}]_vars

\* C8 witness: a game that ended BudgetSpent with questions counted was left
\* with N at the play-again prompt.
C8_Witness ==
    /\ outcome.state = "BudgetSpent"
    /\ step = accepted("play_again", "N")
    /\ pc = "exit"
    /\ questions_asked > 0

\* C9: a game that starts has all the rows read as its catalog, in increasing
\* sno, all of them candidates, and the counter at 0, whatever the game before
\* left.
C9_FreshSession ==
    [][(step'.op = "start_new_game" /\ outcome'.state = "InProgress") =>
          /\ remaining_people' = people'
          /\ questions_asked' = 0
          /\ \A i \in 1..Len(people') : \A j \in 1..Len(people') :
                i < j => people'[i].sno < people'[j].sno
          /\ step'.query = "rows" =>
                {people'[i].sno : i \in 1..Len(people')} = {r[1] : r \in db}
          /\ step'.query # "rows" => people' = <<>>
          /\ pc' = "play_round"]_vars

\* C9 witness: Y was answered at the play-again prompt of a game that had
\* counted questions and dropped candidates.
C9_Witness ==
    /\ step = accepted("play_again", "Y")
    /\ pc = "play_game"
    /\ questions_asked > 0
    /\ Len(remaining_people) < Len(people)

\* The answers a prompt allows.
AllowedAt(prompt) == IF prompt = "ask_gender" THEN {"M", "F"} ELSE {"Y", "N"}

\* C10: a line read at a prompt that is not one of its allowed answers changes
\* neither candidates nor counter, and leaves the same prompt pending.
C10_InvalidAnswer ==
    [][(pc \in PromptPcs /\ step'.input # "none" /\ step'.answer \notin AllowedAt(pc)) =>
          /\ step'.input = "rejected"
          /\ pc' = pc
          /\ remaining_people' = remaining_people
          /\ questions_asked' = questions_asked
          /\ most_common' = most_common
          /\ people' = people
          /\ round' = round
          /\ outcome' = outcome]_vars

\* C10 witness: Y was read at the gender prompt and the prompt is still pending.
C10_Witness ==
    /\ pc = "ask_gender"
    /\ step = rejected("ask_gender_question", "Y")

\* The catalog of the gender example: a man in sports, then a woman in music.
C11_Catalog ==
    /\ Len(people) = 2
    /\ people[1].gender = "M" /\ people[1].industry = "SPORTS"
    /\ people[2].gender = "F" /\ people[2].industry = "MUSIC"

\* C11: in a session on the catalog of a man in sports and a woman in music,
\* the round puts the gender question; answered F, the woman in music alone
\* remains, and with one candidate left the game is told Solved.
C11_GenderExample ==
    (C11_Catalog /\ outcome.state \in {"InProgress", "Solved"}) =>
        /\ step.op = "select_question" => pc = "ask_gender"
        /\ step = accepted("ask_gender_question", "F") =>
              remaining_people = <<people[2]>>
        /\ outcome.state = "Solved" => outcome.names = <<people[2].name>>

\* The catalog of 25 men.
C12_Catalog ==
    /\ Len(people) = 25
    /\ \A i \in 1..Len(people) : people[i].gender = "M"

\* C12: in a session on a catalog of 25 men, the round on the whole catalog
\* puts the gender question; answered F, nobody remains; and the next round's
\* check tells NoMatch at once: no prompt, the counter as it was.
C12_NobodyLeft ==
    [][C12_Catalog =>
          /\ (pc = "select_question" /\ remaining_people = people) =>
                pc' = "ask_gender"
          /\ (pc = "ask_gender" /\ step' = accepted("ask_gender_question", "F")) =>
                /\ remaining_people' = <<>>
                /\ pc' = "play_round"
          /\ (pc = "play_round" /\ remaining_people = <<>>) =>
                /\ outcome'.state = "NoMatch"
                /\ pc' = "play_again"
                /\ step'.input = "none"
                /\ questions_asked' = questions_asked]_vars

\* C12 witness: that game, told NoMatch after its one question.
C12_Witness ==
    /\ C12_Catalog
    /\ outcome.state = "NoMatch"
    /\ questions_asked = 1
    /\ remaining_people = <<>>

\* C13: the first prompt of a round goes by the number of candidates at its
\* start: gender above 20, the entertainment question from 11 to 20, the
\* nationality question or none from 6 to 10, the age question from 3 to 5;
\* and the accepted answer applies that question's filter: the candidates of
\* the answered gender; those of industry SPORTS, MUSIC or FILM on Y and the
\* others on N; those older than 40 on Y and those of 40 or younger on N.
C13_TierAndFilter ==
    [][/\ pc = "select_question" =>
             LET n == Len(remaining_people) IN
             /\ n > 20 => pc' = "ask_gender"
             /\ n \in 11..20 => pc' = "ask_entertainment"
             /\ n \in 6..10 => pc' \in {"ask_nationality", "play_round"}
             /\ n \in 3..5 => pc' = "ask_age"
       /\ (pc = "ask_gender" /\ step'.input = "accepted") =>
             remaining_people' =
                 SelectSeq(remaining_people, LAMBDA p : p.gender = step'.answer)
       /\ (pc = "ask_entertainment" /\ step'.input = "accepted") =>
             remaining_people' =
                 SelectSeq(remaining_people,
                           LAMBDA p : (p.industry \in {"SPORTS", "MUSIC", "FILM"})
                                          <=> (step'.answer = "Y"))
       /\ (pc = "ask_age" /\ step'.input = "accepted") =>
             remaining_people' =
                 SelectSeq(remaining_people,
                           LAMBDA p : (p.age > 40) <=> (step'.answer = "Y"))]_vars

\* C13 witness: a round that started with three to five candidates had its
\* age question answered N.
C13_Witness ==
    /\ round.size \in 3..5
    /\ round.asked = <<"age">>
    /\ step = accepted("ask_age_question", "N")
    /\ Len(remaining_people) \in 1..(round.size - 1)

\* The nationalities of the candidates in L.
Nationalities(L) == {L[i].nationality : i \in 1..Len(L)}

\* C14: a round of six to ten candidates whose nationalities are all
\* different (the most common one occurs once) ends without a prompt, counter
\* and candidates as they were; the nationality question is put only for a
\* nationality that two or more candidates have; answered Y it keeps exactly
\* the candidates of the nationality named, answered N exactly the others.
C14_NationalityQuestion ==
    [][/\ (/\ pc = "select_question"
           /\ Len(remaining_people) \in 6..10
           /\ Cardinality(Nationalities(remaining_people)) = Len(remaining_people)) =>
             /\ pc' = "play_round"
             /\ step'.input = "none"
             /\ UNCHANGED <<remaining_people, questions_asked>>
       /\ pc' = "ask_nationality" =>
             Cardinality({i \in 1..Len(remaining_people') :
                             remaining_people'[i].nationality = most_common'}) > 1
       /\ (pc = "ask_nationality" /\ step'.input = "accepted") =>
             remaining_people' =
                 SelectSeq(remaining_people,
                           LAMBDA p : (p.nationality = most_common)
                                          <=> (step'.answer = "Y"))]_vars

\* C14 witness: a round of six to ten candidates of different nationalities
\* has ended without a prompt.
C14_Witness ==
    /\ step.op = "select_question"
    /\ pc = "play_round"
    /\ round.size \in 6..10
    /\ Len(remaining_people) = round.size
    /\ Cardinality(Nationalities(remaining_people)) = Len(remaining_people)

\* C15: the tennis prompt is reached only from the accepted plays-sports
\* answer and only with more than 3 candidates left by it; the ball-sport
\* prompt only with more than 3 candidates left by the answer before it
\* (plays-sports or tennis); an answer in the sport sub-branch that leaves 3
\* candidates or fewer ends the round, whoever plays tennis or a ball sport.
C15_SubQuestionSize ==
    [][/\ (pc' = "ask_tennis" /\ pc # "ask_tennis") =>
             /\ step' \in {accepted("ask_sports_question", a) : a \in {"Y", "N"}}
             /\ Len(remaining_people') > 3
       /\ (pc' = "ask_ball_sport" /\ pc # "ask_ball_sport") =>
             /\ step' \in {accepted(op, a) :
                              op \in {"ask_sports_question", "ask_tennis_question"},
                              a \in {"Y", "N"}}
             /\ Len(remaining_people') > 3
       /\ (/\ pc \in {"ask_sports", "ask_tennis", "ask_ball_sport"}
           /\ step'.input = "accepted"
           /\ Len(remaining_people') <= 3) =>
             pc' = "play_round"]_vars

\* C15 witness: the plays-sports answer left three candidates or fewer, a
\* tennis player among them, and the round ended there.
C15_Witness ==
    /\ step = accepted("ask_sports_question", "Y")
    /\ Len(remaining_people) \in 2..3
    /\ \E i \in 1..Len(remaining_people) : plays_tennis(remaining_people[i])
    /\ round.asked = <<"entertainment", "sports">>
    /\ pc = "play_round"

\* C16: whenever the film-or-music question is pending, no candidate plays a
\* sport and every candidate is in the entertainment industry, so each one's
\* industry is FILM or MUSIC and nobody is dropped by both Y and N.
C16_FilmOrMusicOnly ==
    pc = "ask_film_vs_music" =>
        \A i \in 1..Len(remaining_people) :
            /\ remaining_people[i].industry # "SPORTS"
            /\ remaining_people[i].industry \in {"SPORTS", "MUSIC", "FILM"}
            /\ remaining_people[i].industry \in {"FILM", "MUSIC"}
            /\ \E a \in {"Y", "N"} :
                  \E j \in 1..Len(filter_film_vs_music(remaining_people, a)) :
                      filter_film_vs_music(remaining_people, a)[j] = remaining_people[i]

\* C16 witness: the question is pending with candidates from film and from
\* music.
C16_Witness ==
    /\ pc = "ask_film_vs_music"
    /\ round.asked = <<"entertainment">>
    /\ \E i \in 1..Len(remaining_people) : remaining_people[i].industry = "FILM"
    /\ \E i \in 1..Len(remaining_people) : remaining_people[i].industry = "MUSIC"

\* C17: when the query for the catalog fails, whether the store's Error or
\* any other exception, start_new_game tells its caller it failed: the game
\* is over before a round or a question, and candidates, catalog and counter
\* are as they were.
C17_LoadFailure ==
    [][(pc = "play_game" /\ step'.query \in {"Error", "Exception"}) =>
          /\ outcome'.state = "Failed"
          /\ pc' = "exit"
          /\ UNCHANGED <<people, remaining_people, questions_asked>>]_vars

\* C18: each filter of the game, applied a second time with the same answer
\* (and, for the nationality question, the same nationality) to the list it
\* has left, leaves that list as it is. The lists are the catalog and every
\* list that filters applied in any order leave of it; the answers are M and
\* F for the gender filter and Y and N for the others, so that every
\* predicate and every negation the game filters by is covered.
C18_Idempotent ==
    LET S == remaining_people
        Twice(F(_, _), a) == LET T == F(S, a) IN F(T, a) = T
    IN  /\ \A a \in {"M", "F"} : Twice(filter_gender, a)
        /\ \A a \in {"Y", "N"} :
              /\ Twice(filter_entertainment, a)
              /\ Twice(filter_sports, a)
              /\ Twice(filter_tennis, a)
              /\ Twice(filter_ball_sport, a)
              /\ Twice(filter_film_vs_music, a)
              /\ Twice(filter_age, a)
              /\ \A nat \in Nationalities(S) :
                    LET T == filter_nationality(S, a, nat)
                    IN  filter_nationality(T, a, nat) = T

\* C18 witness: the age filter has dropped some of the candidates and kept
\* others, of more than one nationality, gender and industry.
C18_Witness ==
    /\ step = accepted("ask_age_question", "Y")
    /\ Len(remaining_people) \in 2..(Len(people) - 1)
    /\ Cardinality(Nationalities(remaining_people)) > 1
    /\ Cardinality({remaining_people[i].gender : i \in 1..Len(remaining_people)}) > 1
    /\ Cardinality({remaining_people[i].industry : i \in 1..Len(remaining_people)}) > 1

\* C19: an interrupt at a pending question ends the game at once: the
\* question is not counted, candidates and catalog are as they were, no
\* answer is recorded, and no step of the game follows the interrupt.
C19_Interrupt ==
    [][/\ (pc \in QuestionPcs /\ step'.op = "keyboard_interrupt") =>
             /\ pc' = "exit"
             /\ step'.input = "none"
             /\ outcome'.state = "Interrupted"
             /\ UNCHANGED <<people, remaining_people, questions_asked, round>>
       /\ step.op # "keyboard_interrupt"]_vars

\* C19 witness: the game was interrupted in the middle of a round, at the
\* plays-sports question that follows the entertainment answer.
C19_Witness ==
    /\ step.op = "keyboard_interrupt"
    /\ pc = "exit"
    /\ round.asked = <<"entertainment">>
    /\ questions_asked = round.count + 1
    /\ any_plays_sport(remaining_people)

\* C20: the nationality named by a pending nationality question is one of the
\* current candidates' nationalities, none of which has more candidates; and
\* of the nationalities with as many candidates it is the one whose first
\* candidate comes earliest in the candidates' order.
C20_MostCommon ==
    pc = "ask_nationality" =>
        LET L == remaining_people
            Count(n) == Cardinality({i \in 1..Len(L) : L[i].nationality = n})
            First(n) == CHOOSE i \in 1..Len(L) :
                            /\ L[i].nationality = n
                            /\ \A j \in 1..(i - 1) : L[j].nationality # n
        IN  /\ most_common \in Nationalities(L)
            /\ \A n \in Nationalities(L) :
                  /\ Count(n) <= Count(most_common)
                  /\ (Count(n) = Count(most_common) /\ n # most_common) =>
                        First(most_common) < First(n)

\* C20 witness: a nationality question is pending for candidates among whom
\* another nationality has as many candidates as the one named.
C20_Witness ==
    /\ pc = "ask_nationality"
    /\ \E n \in Nationalities(remaining_people) :
          /\ n # most_common
          /\ Cardinality({i \in 1..Len(remaining_people) :
                             remaining_people[i].nationality = n})
               = Cardinality({i \in 1..Len(remaining_people) :
                                 remaining_people[i].nationality = most_common})

\* C21: a round that starts with exactly two candidates and the counter below
\* the budget goes past the checks and then ends without a prompt: the age
\* step, which the round reaches, and the nationality step both return at
\* once for two candidates, and candidates and counter are as they were.
C21_TwoCandidates ==
    [][(Len(remaining_people) = 2 /\ questions_asked < 20) =>
          /\ pc = "play_round" =>
                /\ pc' = "select_question"
                /\ UNCHANGED <<remaining_people, questions_asked, outcome>>
          /\ pc = "select_question" =>
                /\ pc' = "play_round"
                /\ step'.input = "none"
                /\ age_prompt(remaining_people) = "play_round"
                /\ nationality_prompt(remaining_people) = "play_round"
                /\ UNCHANGED <<remaining_people, questions_asked, outcome>>]_vars

\* C21 witness: a round of two candidates has ended without a question, after
\* earlier rounds had asked some.
C21_Witness ==
    /\ step.op = "select_question"
    /\ pc = "play_round"
    /\ round = [size |-> 2, count |-> questions_asked, asked |-> <<>>, filters |-> 0]
    /\ Len(remaining_people) = 2
    /\ questions_asked \in 1..19

\* C22: the entertainment question is pending only in rounds that started
\* with 11 to 20 candidates. Answered N, the round ends there. Answered Y, the
\* plays-sports question follows when one of the candidates left by the
\* answer is in industry SPORTS, and the film-or-music question otherwise. The
\* questions of the sport branch are pending only in such a round, after its
\* entertainment question.
C22_AfterEntertainment ==
    [][/\ pc' = "ask_entertainment" => round'.size \in 11..20
       /\ (pc = "ask_entertainment" /\ step' = accepted("ask_entertainment_question", "N")) =>
             pc' = "play_round"
       /\ (pc = "ask_entertainment" /\ step' = accepted("ask_entertainment_question", "Y")) =>
             pc' = IF \E i \in 1..Len(remaining_people') :
                          remaining_people'[i].industry = "SPORTS"
                   THEN "ask_sports"
                   ELSE "ask_film_vs_music"
       /\ pc' \in {"ask_sports", "ask_tennis", "ask_ball_sport"} =>
             /\ round'.size \in 11..20
             /\ round'.asked # <<>>
             /\ Head(round'.asked) = "entertainment"
             /\ "film_vs_music" \notin {round'.asked[i] : i \in 1..Len(round'.asked)}]_vars

\* C22 witness: the entertainment answer Y has left people of sports and of
\* other industries, and the plays-sports question is pending.
C22_Witness ==
    /\ step = accepted("ask_entertainment_question", "Y")
    /\ pc = "ask_sports"
    /\ round.size \in 11..20
    /\ \E i \in 1..Len(remaining_people) : remaining_people[i].industry = "SPORTS"
    /\ \E i \in 1..Len(remaining_people) : remaining_people[i].industry = "MUSIC"

\* C23: in a game whose every answer is true of one person of the catalog,
\* that person is among the candidates in every state from the start of the
\* session on; so the game is never told NoMatch, and when it is told Solved
\* the one candidate left, whose name is told, is that person.
C23_TruthfulSound ==
    (/\ target \in 1..Len(people)
     /\ outcome.state \in {"InProgress", "Solved", "NoMatch", "BudgetSpent"}) =>
        /\ \E i \in 1..Len(remaining_people) : remaining_people[i] = people[target]
        /\ outcome.state # "NoMatch"
        /\ outcome.state = "Solved" =>
              /\ remaining_people = <<people[target]>>
              /\ outcome.names = <<people[target].name>>

\* C23 witness: a truthful game on a catalog above the gender tier has been
\* told Solved after answers to several kinds of question.
C23_Witness ==
    /\ target \in 1..Len(people)
    /\ Len(people) > 20
    /\ outcome.state = "Solved"
    /\ remaining_people = <<people[target]>>
    /\ questions_asked >= 3

\* C24: every truthful game on the sample catalog comes to an end that has
\* the person in mind: it is told Solved with that person's name, or
\* BudgetSpent with that person's name among the names listed.
C24_SampleEnds ==
    (target \in 1..Len(people) /\ outcome.state = "InProgress")
        ~> (/\ target \in 1..Len(people)
            /\ \/ /\ outcome.state = "Solved"
                  /\ outcome.names = <<people[target].name>>
               \/ /\ outcome.state = "BudgetSpent"
                  /\ \E i \in 1..Len(outcome.names) :
                        outcome.names[i] = people[target].name)

\* C25: for the entertainment, plays-sports, tennis, ball-sport, nationality
\* and age questions, the lists that Y and N leave of the same candidates
\* hold candidates only, no candidate is in both, and every candidate is in
\* one of them: exactly one of the two answers keeps any given candidate.
C25_YesNoPartition ==
    LET S == remaining_people
        Elems(L) == {L[i] : i \in 1..Len(L)}
        Splits(Y, N) ==
            /\ Elems(Y) \cap Elems(N) = {}
            /\ Elems(Y) \cup Elems(N) = Elems(S)
            /\ Len(Y) + Len(N) = Len(S)
        Halves(F(_, _)) == Splits(F(S, "Y"), F(S, "N"))
    IN  /\ Halves(filter_entertainment)
        /\ Halves(filter_sports)
        /\ Halves(filter_tennis)
        /\ Halves(filter_ball_sport)
        /\ Halves(filter_age)
        /\ \A nat \in Nationalities(S) :
              Splits(filter_nationality(S, "Y", nat), filter_nationality(S, "N", nat))

\* C25 witness: candidates left by an earlier answer whom the ball-sport
\* question and the age question would each divide into two lists of one
\* candidate or more.
C25_Witness ==
    /\ step.input = "accepted"
    /\ Len(remaining_people) < Len(people)
    /\ \A a \in {"Y", "N"} :
          /\ filter_ball_sport(remaining_people, a) # <<>>
          /\ filter_age(remaining_people, a) # <<>>

====
